---- MODULE Spec2Model ----
(***************************************************************************)
(* Model of gemini_server.py: a FastAPI relay in front of the Gemini       *)
(* text-generation provider.  One request is followed at a time through    *)
(* the handler that serves it (handlers share no mutable state); the       *)
(* provider is the environment and its outcome is chosen by \E.            *)
(***************************************************************************)
EXTENDS Integers, Sequences, FiniteSets, TLC

\* ---------------------------------------------------------------- bounds
MaxMsgLen == 2
MaxCandidates == 2
MaxParts == 2

\* ------------------------------------------------------- Python values
PyNone == [t |-> "none"]
PyStr(s) == [t |-> "str", v |-> s]
PyInt(n) == [t |-> "int", v |-> n]
Unset == [t |-> "unset"]

\* Python truthiness of the values above: None, "" and 0 are falsy.
Truthy(x) ==
    CASE x.t = "none" -> FALSE
      [] x.t = "str"  -> x.v # <<>>
      [] x.t = "int"  -> x.v # 0
      [] OTHER        -> TRUE

\* Python's `a or b`.
PyOr(a, b) == IF Truthy(a) THEN a ELSE b

Whitespace == {" ", "\t", "\n"}
Chars == {" ", "a"}

RECURSIVE LStrip(_)
LStrip(s) ==
    IF s = <<>> THEN s
    ELSE IF Head(s) \in Whitespace THEN LStrip(Tail(s)) ELSE s

RECURSIVE RStrip(_)
RStrip(s) ==
    IF s = <<>> THEN s
    ELSE IF s[Len(s)] \in Whitespace THEN RStrip(SubSeq(s, 1, Len(s) - 1)) ELSE s

\* str.strip(): leading and trailing whitespace removed.
Strip(s) == RStrip(LStrip(s))

\* ------------------------------------------------------- configuration
MODEL_NAME == "gemini-2.5-flash"

\* What os.environ.get can give for a variable: unset, set but empty, set.
EnvValues == {PyNone, PyStr(<<>>), PyStr(<<"k">>)}

\* GEMINI_API_KEY = environ.get("GEMINI_API_KEY") or environ.get("GOOGLE_API_KEY")
LoadKey(gemini, google) == PyOr(gemini, google)

\* The finish reason the code reads as "safety filter triggered".
SAFETY == 2
\* What a candidate's finish_reason can be: 1 and 3 stand for the values
\* the code does not single out.
FinishReasons == {1, SAFETY, 3}

\* --------------------------------------------------------- exceptions
HTTPException(code, detail) ==
    [cls |-> "HTTPException", status_code |-> code, detail |-> detail]
PyError(cls, args) == [cls |-> cls, args |-> args]

\* str(e): an HTTPException prints as "<status>: <detail>", any other
\* exception as its single argument, or as "" when it has none.
Str(e) ==
    IF e.cls = "HTTPException"
    THEN ToString(e.status_code) \o ": " \o e.detail
    ELSE IF e.args = <<>> THEN "" ELSE e.args[1]

JSONDecodeError == PyError("JSONDecodeError", <<"Expecting value: line 1 column 1 (char 0)">>)
NoGetError == PyError("AttributeError", <<"'list' object has no attribute 'get'">>)
NoStripError == PyError("AttributeError", <<"object has no attribute 'strip'">>)

\* What the provider call can raise.
ProviderErrors ==
    { PyError("ResourceExhausted", <<"429 quota exceeded">>),
      PyError("ValueError", <<>>) }

\* ------------------------------------------------------ provider reply
Texts == {"x", "y"}
SeqsUpTo(S, n) == UNION { [1..k -> S] : k \in 0..n }

Parts == { [text |-> tx] : tx \in Texts }
Contents == {PyNone} \cup { [t |-> "content", parts |-> ps] : ps \in SeqsUpTo(Parts, MaxParts) }
Candidates == { [content |-> c, finish_reason |-> f] : c \in Contents, f \in FinishReasons }
Responses == { [candidates |-> cs] : cs \in SeqsUpTo(Candidates, MaxCandidates) }

\* ------------------------------------------------------- request bodies
Strings == SeqsUpTo(Chars, MaxMsgLen)
MessageValues == { PyStr(s) : s \in Strings } \cup {PyNone, PyInt(7)}
EmptyDict == [k \in {} |-> PyNone]
Bodies ==
    { [json |-> "malformed"], [json |-> "array"], [json |-> "object", data |-> EmptyDict] }
    \cup { [json |-> "object", data |-> [message |-> m]] : m \in MessageValues }


\* ------------------------------------------------- outcome normalisation
SAFETY_APOLOGY ==
    "I'm unable to provide a response to that request due to content safety policies."
MODEL_ERROR_APOLOGY ==
    "I'm sorry, but I encountered an issue processing your request. This may be due to content safety policies or technical limitations."
OUTER_APOLOGY ==
    "I apologize, but I'm having technical difficulties processing your request. Please try again with a different query."
TEST_FILTERED_TEXT ==
    "I'm functioning correctly, but this test response was filtered."

\* response.candidates and candidates[0].content and candidates[0].content.parts
HasText(r) ==
    /\ r.candidates # <<>>
    /\ Truthy(r.candidates[1].content)
    /\ r.candidates[1].content.parts # <<>>

\* is_filtered of chat_endpoint
IsFiltered(r) ==
    /\ r.candidates # <<>>
    /\ r.candidates[1].finish_reason = SAFETY

\* Variant: a set filter flag replaces the text by the apology.
ExtractTextUnlessFiltered(r) ==
    IF HasText(r) /\ ~IsFiltered(r)
    THEN r.candidates[1].content.parts[1].text ELSE SAFETY_APOLOGY

\* Variant: the missing text is left empty instead of substituted.
ExtractTextNoSubstitute(r) ==
    IF HasText(r) THEN r.candidates[1].content.parts[1].text ELSE ""

\* text_response of chat_endpoint
ExtractText(r) ==
    IF HasText(r) THEN r.candidates[1].content.parts[1].text ELSE SAFETY_APOLOGY

ChatReply(r) ==
    [response |-> ExtractText(r), model |-> MODEL_NAME, filtered |-> IsFiltered(r)]

\* Variant: the exception's class name is reported instead of str(e).
InnerExceptReplyClassName(e) ==
    [response |-> MODEL_ERROR_APOLOGY, model |-> MODEL_NAME, error |-> e.cls]

InnerExceptReply(e) ==
    [response |-> MODEL_ERROR_APOLOGY, model |-> MODEL_NAME, error |-> Str(e)]

\* Variant: the diagnostic detail is left out of the apology body.
OuterExceptReplyNoError(e) ==
    [response |-> OUTER_APOLOGY, model |-> MODEL_NAME]

OuterExceptReply(e) ==
    [response |-> OUTER_APOLOGY, model |-> MODEL_NAME, error |-> Str(e)]

\* Variant: `is not None` in place of bool(): an empty key counts as loaded.
HealthReplyNotNone(key) ==
    [status |-> "healthy",
     model_loaded |-> key # PyNone,
     model_info |-> IF key # PyNone THEN [name |-> MODEL_NAME, type |-> "text"] ELSE PyNone]

HealthReply(key) ==
    [status |-> "healthy",
     model_loaded |-> Truthy(key),
     model_info |-> IF Truthy(key) THEN [name |-> MODEL_NAME, type |-> "text"] ELSE PyNone]

TestNoKeyReply == [success |-> FALSE, error |-> "Gemini API key not configured"]

\* Variant: the last part of the first candidate is read, not the first.
TestTextLastPart(r) ==
    IF HasText(r)
    THEN r.candidates[1].content.parts[Len(r.candidates[1].content.parts)].text
    ELSE TEST_FILTERED_TEXT

TestText(r) ==
    IF HasText(r) THEN r.candidates[1].content.parts[1].text ELSE TEST_FILTERED_TEXT

TestReply(r) == [success |-> TRUE, model |-> MODEL_NAME, response |-> TestText(r)]

TestExceptReply(e) == [success |-> FALSE, error |-> Str(e)]

RootReply ==
    [status |-> "running", provider |-> "Google Gemini AI", model |-> MODEL_NAME,
     endpoints |-> <<"/health", "/chat", "/test">>]

\* ------------------------------------------------------------- state
VARIABLES
    GEMINI_API_KEY,  \* module global, set once at import
    endpoint,        \* the route of the request being served, "none" when idle
    pc,              \* position inside the handler
    body,            \* the request body of a POST /chat
    user_input,      \* local of chat_endpoint
    response,        \* local: what generate_content returned
    exc,             \* the exception in flight / bound by the except clause
    calls,           \* provider invocations made for this request
    status,          \* HTTP status sent, 0 while the handler runs
    reply            \* JSON body sent

vars == <<GEMINI_API_KEY, endpoint, pc, body, user_input, response, exc, calls, status, reply>>

NoReply == [k \in {} |-> PyNone]

Init ==
    /\ \E gemini \in EnvValues, google \in EnvValues :
           GEMINI_API_KEY = LoadKey(gemini, google)
    /\ endpoint = "none"
    /\ pc = "idle"
    /\ body = Unset
    /\ user_input = Unset
    /\ response = Unset
    /\ exc = Unset
    /\ calls = 0
    /\ status = 0
    /\ reply = NoReply

\* A request arrives while no other is followed: the locals are fresh.
Begin(route, b, at) ==
    /\ pc = "idle"
    /\ endpoint' = route
    /\ body' = b
    /\ pc' = at
    /\ UNCHANGED <<GEMINI_API_KEY, user_input, response, exc, calls, status, reply>>

\* The handler returns a dict: FastAPI sends it with status 200.
Return(r) ==
    /\ status' = 200
    /\ reply' = r
    /\ pc' = "done"

Raise(e, handler) ==
    /\ exc' = e
    /\ pc' = handler

\* ------------------------------------------------------ POST /chat
ChatRequest ==
    \E b \in Bodies : Begin("chat", b, "parse")

\* data = await request.json(); user_input = data.get("message", "")
ChatParse ==
    /\ endpoint = "chat" /\ pc = "parse"
    /\ CASE body.json = "malformed" ->
              Raise(JSONDecodeError, "outer_except") /\ UNCHANGED user_input
         [] body.json = "array" ->
              Raise(NoGetError, "outer_except") /\ UNCHANGED user_input
         [] OTHER ->
              /\ user_input' = IF "message" \in DOMAIN body.data
                               THEN body.data.message ELSE PyStr(<<>>)
              /\ pc' = "validate"
              /\ UNCHANGED exc
    /\ UNCHANGED <<GEMINI_API_KEY, endpoint, body, response, calls, status, reply>>

\* if not user_input.strip(): raise HTTPException(400)
ChatValidate ==
    /\ endpoint = "chat" /\ pc = "validate"
    /\ IF user_input.t # "str"
       THEN Raise(NoStripError, "outer_except")
       ELSE IF ~Truthy(PyStr(Strip(user_input.v)))
       THEN Raise(HTTPException(400, "Message cannot be empty"), "outer_except")
       ELSE pc' = "credential" /\ UNCHANGED exc
    /\ UNCHANGED <<GEMINI_API_KEY, endpoint, body, user_input, response, calls, status, reply>>

\* Variant: the credential check is skipped.
ChatCredentialSkipped ==
    /\ endpoint = "chat" /\ pc = "credential"
    /\ pc' = "generate"
    /\ UNCHANGED <<GEMINI_API_KEY, endpoint, body, user_input, response, exc, calls, status, reply>>

\* if not GEMINI_API_KEY: raise HTTPException(500)
ChatCredential ==
    /\ endpoint = "chat" /\ pc = "credential"
    /\ IF ~Truthy(GEMINI_API_KEY)
       THEN Raise(HTTPException(500, "Gemini API key not configured"), "outer_except")
       ELSE pc' = "generate" /\ UNCHANGED exc
    /\ UNCHANGED <<GEMINI_API_KEY, endpoint, body, user_input, response, calls, status, reply>>

\* model = genai.GenerativeModel(...); response = model.generate_content(user_input)
ChatGenerate ==
    /\ endpoint = "chat" /\ pc = "generate"
    /\ calls' = calls + 1
    /\ \/ \E e \in ProviderErrors : Raise(e, "inner_except") /\ UNCHANGED response
       \/ \E r \in Responses : response' = r /\ pc' = "normalize" /\ UNCHANGED exc
    /\ UNCHANGED <<GEMINI_API_KEY, endpoint, body, user_input, status, reply>>

\* Variant: an empty candidate list falls through to the substitution.
ChatNormalizeNoRaise ==
    /\ endpoint = "chat" /\ pc = "normalize"
    /\ Return(ChatReply(response))
    /\ UNCHANGED <<GEMINI_API_KEY, endpoint, body, user_input, response, exc, calls>>

\* lines 93-118: no candidates raises, anything else is returned
ChatNormalize ==
    /\ endpoint = "chat" /\ pc = "normalize"
    /\ IF response.candidates = <<>>
       THEN /\ Raise(HTTPException(500, "No response generated from Gemini"), "inner_except")
            /\ UNCHANGED <<status, reply>>
       ELSE Return(ChatReply(response)) /\ UNCHANGED exc
    /\ UNCHANGED <<GEMINI_API_KEY, endpoint, body, user_input, response, calls>>

\* except Exception as model_error
ChatInnerExcept ==
    /\ endpoint = "chat" /\ pc = "inner_except"
    /\ Return(InnerExceptReply(exc))
    /\ UNCHANGED <<GEMINI_API_KEY, endpoint, body, user_input, response, exc, calls>>

\* except Exception as e
ChatOuterExcept ==
    /\ endpoint = "chat" /\ pc = "outer_except"
    /\ Return(OuterExceptReply(exc))
    /\ UNCHANGED <<GEMINI_API_KEY, endpoint, body, user_input, response, exc, calls>>

\* ------------------------------------------------------ GET /health
Health ==
    /\ pc = "idle"
    /\ endpoint' = "health"
    /\ Return(HealthReply(GEMINI_API_KEY))
    /\ UNCHANGED <<GEMINI_API_KEY, body, user_input, response, exc, calls>>

\* ------------------------------------------------------ GET /test
TestRequest == Begin("test", Unset, "test_credential")

\* if not GEMINI_API_KEY: return {"success": False, ...}
TestCredential ==
    /\ endpoint = "test" /\ pc = "test_credential"
    /\ IF ~Truthy(GEMINI_API_KEY)
       THEN Return(TestNoKeyReply)
       ELSE pc' = "test_generate" /\ UNCHANGED <<status, reply>>
    /\ UNCHANGED <<GEMINI_API_KEY, endpoint, body, user_input, response, exc, calls>>

\* response = model.generate_content("Hello, are you working properly?")
TestGenerate ==
    /\ endpoint = "test" /\ pc = "test_generate"
    /\ calls' = calls + 1
    /\ \/ \E e \in ProviderErrors : Raise(e, "test_except") /\ UNCHANGED response
       \/ \E r \in Responses : response' = r /\ pc' = "test_return" /\ UNCHANGED exc
    /\ UNCHANGED <<GEMINI_API_KEY, endpoint, body, user_input, status, reply>>

TestReturn ==
    /\ endpoint = "test" /\ pc = "test_return"
    /\ Return(TestReply(response))
    /\ UNCHANGED <<GEMINI_API_KEY, endpoint, body, user_input, response, exc, calls>>

TestExcept ==
    /\ endpoint = "test" /\ pc = "test_except"
    /\ Return(TestExceptReply(exc))
    /\ UNCHANGED <<GEMINI_API_KEY, endpoint, body, user_input, response, exc, calls>>

\* ------------------------------------------------------ GET /
Root ==
    /\ pc = "idle"
    /\ endpoint' = "root"
    /\ Return(RootReply)
    /\ UNCHANGED <<GEMINI_API_KEY, body, user_input, response, exc, calls>>

\* The response has been sent; nothing of the request is retained.
Finish ==
    /\ pc = "done"
    /\ endpoint' = "none"
    /\ pc' = "idle"
    /\ body' = Unset
    /\ user_input' = Unset
    /\ response' = Unset
    /\ exc' = Unset
    /\ calls' = 0
    /\ status' = 0
    /\ reply' = NoReply
    /\ UNCHANGED GEMINI_API_KEY

Next ==
    \/ ChatRequest
    \/ ChatParse
    \/ ChatValidate
    \/ ChatCredential
    \/ ChatGenerate
    \/ ChatNormalize
    \/ ChatInnerExcept
    \/ ChatOuterExcept
    \/ Health
    \/ TestRequest
    \/ TestCredential
    \/ TestGenerate
    \/ TestReturn
    \/ TestExcept
    \/ Root
    \/ Finish

Spec == Init /\ [][Next]_vars


\* ---------------------------------------------------------------------
\* Vocabulary of the properties, stated over the request and the provider
\* outcome rather than over the handler's own helpers.
ChatDone == endpoint = "chat" /\ pc = "done"
TestDone == endpoint = "test" /\ pc = "done"
HealthDone == endpoint = "health" /\ pc = "done"

HasKey(r, k) == k \in DOMAIN r

CredentialConfigured == GEMINI_API_KEY.t = "str" /\ Len(GEMINI_API_KEY.v) > 0

BodyIsObject == HasKey(body, "json") /\ body.json = "object"
MessageGiven == BodyIsObject /\ HasKey(body.data, "message")
MessageIsString == MessageGiven /\ body.data.message.t = "str"

\* Blank after trimming; a body without `message` counts as blank.
BlankMessage ==
    /\ BodyIsObject
    /\ \/ ~MessageGiven
       \/ /\ MessageIsString
          /\ \A i \in 1..Len(body.data.message.v) : body.data.message.v[i] \in Whitespace

NonBlankMessage ==
    /\ MessageIsString
    /\ \E i \in 1..Len(body.data.message.v) : body.data.message.v[i] \notin Whitespace

ProviderReturned == HasKey(response, "candidates")
ProviderRaised == calls >= 1 /\ ~ProviderReturned
ZeroCandidates == ProviderReturned /\ Len(response.candidates) = 0
FirstCandidate == response.candidates[1]
FirstHasParts ==
    /\ ProviderReturned
    /\ Len(response.candidates) >= 1
    /\ HasKey(FirstCandidate.content, "parts")
    /\ Len(FirstCandidate.content.parts) >= 1
FirstHasNoParts ==
    /\ ProviderReturned
    /\ Len(response.candidates) >= 1
    /\ ~FirstHasParts

\* The string form of the exception the provider raised.
RaisedText == IF Len(exc.args) = 0 THEN "" ELSE exc.args[1]

\* C1: POST /chat with a blank message (empty, whitespace-only, or no
\* `message` field) ends with HTTP status 400, whatever the credential is.
C1_BlankIs400 ==
    (ChatDone /\ BlankMessage) => status = 400

\* C2: POST /chat with a non-blank message and no credential configured
\* ends with HTTP status 500.
C2_NoCredentialIs500 ==
    (ChatDone /\ NonBlankMessage /\ ~CredentialConfigured) => status = 500

C4_ProviderRaiseIs200 ==
    (ChatDone /\ ProviderRaised) =>
        /\ status = 200
        /\ reply.response = MODEL_ERROR_APOLOGY
        /\ HasKey(reply, "error")
        /\ reply.error = RaisedText

C4_Witness ==
    /\ ChatDone /\ ProviderRaised /\ NonBlankMessage /\ CredentialConfigured
    /\ exc.cls = "ResourceExhausted"
    /\ reply.error = "429 quota exceeded"

\* C5: the first candidate has at least one content part: status 200,
\* `response` is the text of the first candidate's first part, no `error`
\* key, and `filtered` is true exactly when that candidate's finish reason is
\* 2; the filter flag never replaces the text.
C5_TextAndFilterFlag ==
    (ChatDone /\ FirstHasParts) =>
        /\ status = 200
        /\ reply.response = FirstCandidate.content.parts[1].text
        /\ ~HasKey(reply, "error")
        /\ HasKey(reply, "filtered")
        /\ reply.filtered = (FirstCandidate.finish_reason = 2)

C5_Witness ==
    /\ ChatDone /\ FirstHasParts
    /\ FirstCandidate.finish_reason = 2
    /\ Len(FirstCandidate.content.parts) >= 2
    /\ FirstCandidate.content.parts[2].text # FirstCandidate.content.parts[1].text
    /\ Len(response.candidates) >= 2
    /\ response.candidates[2] # FirstCandidate
    /\ reply.filtered
    /\ reply.response \in Texts

RejectedBeforeProvider ==
    \/ ~MessageIsString /\ ~BlankMessage
    \/ BlankMessage
    \/ NonBlankMessage /\ ~CredentialConfigured

C7_TestOutcome ==
    TestDone =>
        /\ (CredentialConfigured /\ FirstHasParts) =>
              /\ reply.success = TRUE
              /\ HasKey(reply, "response")
              /\ reply.response = FirstCandidate.content.parts[1].text
        /\ (CredentialConfigured /\ ProviderRaised) =>
              /\ reply.success = FALSE
              /\ HasKey(reply, "error")
              /\ reply.error = RaisedText
        /\ ~(HasKey(reply, "response") /\ HasKey(reply, "error"))

C7_Witness ==
    /\ TestDone /\ CredentialConfigured /\ FirstHasParts
    /\ Len(FirstCandidate.content.parts) >= 2
    /\ FirstCandidate.content.parts[2].text # FirstCandidate.content.parts[1].text
    /\ reply.success
    /\ reply.response \in Texts

\* C8: GET /health always reports status "healthy", `model_loaded` is true
\* iff a credential is present, `model_info` is null iff `model_loaded` is
\* false, and the provider is never invoked.
C8_Health ==
    HealthDone =>
        /\ status = 200
        /\ reply.status = "healthy"
        /\ reply.model_loaded = CredentialConfigured
        /\ (reply.model_info = PyNone) <=> ~reply.model_loaded
        /\ calls = 0

C8_Witness ==
    /\ HealthDone
    /\ GEMINI_API_KEY = PyStr(<<>>)
    /\ reply.model_loaded = FALSE
    /\ reply.model_info = PyNone

\* C9: the provider returns at least one candidate whose first candidate has
\* no content or no content parts: status 200, `response` is the
\* content-safety apology, no `error` key, whatever the finish reason.
C9_NoPartsApology ==
    (ChatDone /\ FirstHasNoParts) =>
        /\ status = 200
        /\ reply.response = SAFETY_APOLOGY
        /\ ~HasKey(reply, "error")

C9_Witness ==
    /\ ChatDone /\ FirstHasNoParts
    /\ FirstCandidate.content # PyNone
    /\ FirstCandidate.finish_reason # 2
    /\ reply.response = SAFETY_APOLOGY
    /\ reply.filtered = FALSE

\* C10: a POST /chat request invokes the provider at most once, and not at
\* all unless the message is a non-blank string and a credential is
\* configured: both checks precede the call.
C10_ProviderAtMostOnceAfterChecks ==
    endpoint = "chat" =>
        /\ calls <= 1
        /\ (calls >= 1 \/ pc = "generate") => (NonBlankMessage /\ CredentialConfigured)

C10_Witness ==
    /\ ChatDone
    /\ calls = 1
    /\ ProviderRaised
    /\ HasKey(reply, "error")

====
